---- MODULE Spec2Model ----
(***************************************************************************)
(* A model of the simulation engine of src/src/main.py (Snake+): the Snake *)
(* class, the world spawner, the effect manager, the simulation clock and  *)
(* the session state machine of class Game.                                *)
(*                                                                         *)
(* Numbers.  Times are integer milliseconds, speeds are integer            *)
(* milli-cells per second, probabilities are integer thousandths; a float  *)
(* product is the floor of the exact product.  A cell is <<x, y>>.         *)
(***************************************************************************)
EXTENDS Integers, Sequences, FiniteSets, TLC

-----------------------------------------------------------------------------
(* Bounds of the model.                                                    *)

\* The grid of the model (the program's is 40 x 30).
GRID_W == 3
GRID_H == 3
\* _free_cell's number of random attempts before the scan (the program's is 10000).
TriesLimit == 1
\* In the game the random generator draws cells whose row-major index is below
\* RandSpan; in the calls of _free_cell on its own, below DrawSpan.
RandSpan == 1
DrawSpan == 4
\* Loop iterations (clock.tick calls) of one run of the program.
MaxTicks == 2
\* The frame times clock.tick returns: a regular frame and a slow one.
DtFrame == 160
DtSlow == 900
\* The model's milliseconds for one second of "powerup_every" and of PUP_DUR
\* (1000 in the program): a power-up is due after a few frames and its effect
\* lasts a few frames, where the program takes a thousand frames for either.
PupUnit == 45
DurUnit == 40
\* Option changes in the menu during one run of the program.
MaxToggles == 1
\* GOLD and POISON foods lying on the grid at one time.
MaxSpecial == 1
\* The Snake class on its own: it is fed NORMAL or GOLD food only while its
\* length plus its pending growth is below this.
MaxLen == 4
\* Loop iterations of one run of the program that is set to EASY.
EasyTicks == 6

\* The updates of a run of the effect manager on its own.
EffectTicks == 3

\* The obstacle generator on its own: the grid it works on, which has cells
\* outside the forbidden block, the largest n it is asked for, and the
\* attempts it has for each of the n cells (30 in main.py).
ObstacleW == 7
ObstacleH == 4
MaxObstacles == 3
RetryFactor == 3

-----------------------------------------------------------------------------
(* Configuration (main.py 29-66).                                          *)

RAMP_PER_NORMAL == 120
MAX_SPEED == 16000

DifficultyNames == <<"EASY", "NORMAL", "HARD">>

DIFFICULTIES ==
  [ EASY   |-> [speed |-> 6500, obstacles |-> 10, poison_chance |-> 60,
                gold_chance |-> 100, powerup_every |-> 18 * PupUnit],
    NORMAL |-> [speed |-> 7500, obstacles |-> 22, poison_chance |-> 100,
                gold_chance |-> 80, powerup_every |-> 20 * PupUnit],
    HARD   |-> [speed |-> 9000, obstacles |-> 36, poison_chance |-> 140,
                gold_chance |-> 60, powerup_every |-> 22 * PupUnit] ]

POWERUP_TYPES == {"SLOW", "GHOST", "MULTI"}

PUP_DUR == [SLOW |-> 8 * DurUnit, GHOST |-> 8 * DurUnit, MULTI |-> 10 * DurUnit]

FoodKinds == {"NORMAL", "GOLD", "POISON"}

Cells == (0 .. GRID_W - 1) \X (0 .. GRID_H - 1)

\* The four directions the key handler passes to set_dir.
Directions == { <<0, -1>>, <<0, 1>>, <<-1, 0>>, <<1, 0>> }

-----------------------------------------------------------------------------
(* Small utilities.                                                        *)

Min(a, b) == IF a < b THEN a ELSE b

Max(a, b) == IF a > b THEN a ELSE b

clamp(v, lo, hi) == Max(lo, Min(hi, v))
\* Faulty variant: the upper limits are taken as inside the grid.
within_grid_closed(cell) ==
  /\ 0 <= cell[1] /\ cell[1] <= GRID_W
  /\ 0 <= cell[2] /\ cell[2] <= GRID_H

within_grid(cell) ==
  /\ 0 <= cell[1] /\ cell[1] < GRID_W
  /\ 0 <= cell[2] /\ cell[2] < GRID_H

\* The string difficulty|wrap=0/1|maze=0/1, as the tuple of its three parts.
ruleset_key(difficulty, wrap, maze) ==
  <<difficulty, IF wrap THEN 1 ELSE 0, IF maze THEN 1 ELSE 0>>

\* The cells of a list, as a set.
CellSet(body) == { body[i] : i \in 1 .. Len(body) }

\* list[:-1]
ButLast(s) == SubSeq(s, 1, Len(s) - 1)

\* list.pop(i) for a 1-based index: the list without that element.
RemoveAt(s, i) == SubSeq(s, 1, i - 1) \o SubSeq(s, i + 1, Len(s))

-----------------------------------------------------------------------------
(* class Snake.  A snake is a record [body, dir, next_dir, grow, alive];   *)
(* body is head first.                                                     *)

NewSnake(start) ==
  [ body |-> <<start>>, dir |-> <<1, 0>>, next_dir |-> <<1, 0>>,
    grow |-> 2, alive |-> TRUE ]

IsOpposite(d, e) == d[1] = -e[1] /\ d[2] = -e[2]

\* Faulty variant: set_dir without the reversal test.
set_dir_unguarded(sn, d) == [sn EXCEPT !.next_dir = d]

set_dir(sn, d) ==
  IF Len(sn.body) > 1 /\ IsOpposite(d, sn.dir)
    THEN sn
    ELSE [sn EXCEPT !.next_dir = d]

\* Faulty variant: the head is reduced modulo the grid in wrap mode only.
NewHead_wrap_only(sn, wrap, ghost) ==
  LET nx == sn.body[1][1] + sn.next_dir[1]
      ny == sn.body[1][2] + sn.next_dir[2]
  IN  IF wrap THEN <<nx % GRID_W, ny % GRID_H>> ELSE <<nx, ny>>

\* Faulty variant: only the x coordinate is reduced modulo the grid.
NewHead_wrap_x(sn, wrap, ghost) ==
  LET nx == sn.body[1][1] + sn.next_dir[1]
      ny == sn.body[1][2] + sn.next_dir[2]
  IN  IF wrap \/ ghost THEN <<nx % GRID_W, ny>> ELSE <<nx, ny>>

\* The head cell step() computes before any collision test (lines 160-167).
NewHead(sn, wrap, ghost) ==
  LET nx == sn.body[1][1] + sn.next_dir[1]
      ny == sn.body[1][2] + sn.next_dir[2]
  IN  IF wrap \/ ghost THEN <<nx % GRID_W, ny % GRID_H>> ELSE <<nx, ny>>

\* Faulty variant: the obstacle test comes before the body test.
step_obstacle_first(sn, wrap, ghost, obs) ==
  LET s1 == [sn EXCEPT !.dir = sn.next_dir]
      new_head == NewHead(sn, wrap, ghost)
      dead == [s1 EXCEPT !.alive = FALSE]
  IN  IF ~(wrap \/ ghost) /\ ~within_grid(new_head)
        THEN [snake |-> dead, reason |-> "WALL"]
      ELSE IF ~ghost /\ new_head \in obs
        THEN [snake |-> dead, reason |-> "OBSTACLE"]
      ELSE IF ~ghost /\ new_head \in CellSet(ButLast(sn.body))
        THEN [snake |-> dead, reason |-> "SELF"]
      ELSE IF sn.grow > 0
        THEN [snake |-> [s1 EXCEPT !.body = <<new_head>> \o sn.body,
                                   !.grow = sn.grow - 1],
              reason |-> "NONE"]
        ELSE [snake |-> [s1 EXCEPT !.body = <<new_head>> \o ButLast(sn.body)],
              reason |-> "NONE"]

\* Faulty variant: the growth counter is decremented without the test grow > 0.
step_always_grows(sn, wrap, ghost, obs) ==
  LET s1 == [sn EXCEPT !.dir = sn.next_dir]
      new_head == NewHead(sn, wrap, ghost)
      dead == [s1 EXCEPT !.alive = FALSE]
  IN  IF ~(wrap \/ ghost) /\ ~within_grid(new_head)
        THEN [snake |-> dead, reason |-> "WALL"]
      ELSE IF ~ghost /\ new_head \in CellSet(ButLast(sn.body))
        THEN [snake |-> dead, reason |-> "SELF"]
      ELSE IF ~ghost /\ new_head \in obs
        THEN [snake |-> dead, reason |-> "OBSTACLE"]
      ELSE [snake |-> [s1 EXCEPT !.body = <<new_head>> \o sn.body,
                                 !.grow = sn.grow - 1],
            reason |-> "NONE"]

\* step() returns [snake, reason]; reason "NONE" stands for Python's None.
step(sn, wrap, ghost, obs) ==
  LET s1 == [sn EXCEPT !.dir = sn.next_dir]
      new_head == NewHead(sn, wrap, ghost)
      dead == [s1 EXCEPT !.alive = FALSE]
  IN  IF ~(wrap \/ ghost) /\ ~within_grid(new_head)
        THEN [snake |-> dead, reason |-> "WALL"]
      ELSE IF ~ghost /\ new_head \in CellSet(ButLast(sn.body))
        THEN [snake |-> dead, reason |-> "SELF"]
      ELSE IF ~ghost /\ new_head \in obs
        THEN [snake |-> dead, reason |-> "OBSTACLE"]
      ELSE IF sn.grow > 0
        THEN [snake |-> [s1 EXCEPT !.body = <<new_head>> \o sn.body,
                                   !.grow = sn.grow - 1],
              reason |-> "NONE"]
        ELSE [snake |-> [s1 EXCEPT !.body = <<new_head>> \o ButLast(sn.body)],
              reason |-> "NONE"]

-----------------------------------------------------------------------------
(* World spawner.                                                          *)

CellIndex(c) == c[2] * GRID_W + c[1]

\* Faulty variant: the scan returns the last cell not occupied.
FirstFree_last(occ) ==
  CHOOSE c \in Cells \ occ : \A e \in Cells \ occ : CellIndex(c) >= CellIndex(e)

\* What the fallback scan of _free_cell returns (for y: for x: first cell not occupied).
FirstFree(occ) ==
  CHOOSE c \in Cells \ occ : \A e \in Cells \ occ : CellIndex(c) <= CellIndex(e)

\* Stands for a call of _free_cell that never returns: the scan finds no cell
\* and the while loop goes on drawing occupied cells.
NoCell == <<-1, -1>>

\* Faulty variant: the drawn cell is returned without the occupancy test.
FreeCellUnchecked(occ, draws, tries) == draws[tries + 1]

\* The while loop of _free_cell with `tries` attempts made so far; draws[t] is
\* the cell the t-th attempt draws from the random generator.
RECURSIVE FreeCellLoop(_, _, _)
FreeCellLoop(occ, draws, tries) ==
  LET t == tries + 1
      c == draws[t]
  IN  IF c \notin occ THEN c
      ELSE IF t > TriesLimit
        THEN (IF Cells \ occ # {} THEN FirstFree(occ) ELSE NoCell)
        ELSE FreeCellLoop(occ, draws, t)

_free_cell(occ, draws) == FreeCellLoop(occ, draws, 0)

\* The sequences of cells the random generator produces for one call.
DrawCells(span) == { c \in Cells : CellIndex(c) < span }

AllDraws == [1 .. TriesLimit + 1 -> DrawCells(DrawSpan)]

GameDraws == [1 .. TriesLimit + 1 -> DrawCells(RandSpan)]

\* random.random() in thousandths: one value for each food kind of every
\* difficulty, and the values that make a NORMAL food.
RandomFloats == {0, 150, 500}

NormalFloats == {500}

FoodKind(params, r) ==
  IF r < params.poison_chance THEN "POISON"
  ELSE IF r < params.poison_chance + params.gold_chance THEN "GOLD"
  ELSE "NORMAL"

\* The cells a call of _free_cell may return in the game.
FreeCellResults(occ) == { _free_cell(occ, ds) : ds \in GameDraws } \ {NoCell}

\* _spawn_food, given the cell _free_cell returned and the value of random.random().
_spawn_food(G, pos, r) ==
  LET kind == FoodKind(DIFFICULTIES[G.difficulty], r)
  IN  [G EXCEPT !.foods = Append(@, [pos |-> pos, kind |-> kind]),
                !.occupied = @ \cup {pos}]

\* _spawn_powerup, given the cell _free_cell returned and random.choice's kind.
_spawn_powerup(G, pos, kind) ==
  [G EXCEPT !.powerups = Append(@, [pos |-> pos, kind |-> kind]),
            !.occupied = @ \cup {pos}]

\* The foods on the grid that are not NORMAL.
Specials(G) == { i \in 1 .. Len(G.foods) : G.foods[i].kind # "NORMAL" }

\* Every outcome of one _spawn_food call that returns; the generator makes a
\* GOLD or POISON food only while fewer than MaxSpecial of them lie on the grid.
SpawnFoodResults(G) ==
  { _spawn_food(G, pos, r) :
      pos \in FreeCellResults(G.occupied),
      r \in IF Cardinality(Specials(G)) < MaxSpecial THEN RandomFloats ELSE NormalFloats }

SpawnPowerupResults(G) ==
  { _spawn_powerup(G, pos, k) : pos \in FreeCellResults(G.occupied), k \in POWERUP_TYPES }

SpawnFoodAll(S) == UNION { SpawnFoodResults(G) : G \in S }

\* _gen_obstacles: the cells of one attempted run, in the order of the for loop.
RunCells(start, length, horizontal) ==
  [ i \in 1 .. length |->
      IF horizontal THEN <<start[1] + (i - 1), start[2]>>
                    ELSE <<start[1], start[2] + (i - 1)>> ]

\* The forbidden cells on a grid of w by h cells with the snake's head at head.
ForbiddenOn(w, h, head) ==
  {head} \cup
  { <<w \div 2 + dx, h \div 2 + dy>> : dx \in -2 .. 2, dy \in -2 .. 2 }

Forbidden(sn) == ForbiddenOn(GRID_W, GRID_H, sn.body[1])

\* Faulty variant: an ok run adds all its cells, also beyond n.
PlaceRunOn_whole_run(cells, obs, run, forbidden, n) ==
  IF \E i \in 1 .. Len(run) :
       run[i] \notin cells \/ run[i] \in forbidden \/ run[i] \in obs
    THEN obs
    ELSE obs \cup { run[i] : i \in 1 .. Len(run) }

\* One attempt of the while loop on the obstacles placed so far: a run that is
\* not ok leaves them, an ok run adds its cells until n are placed.
PlaceRunOn(cells, obs, run, forbidden, n) ==
  IF \E i \in 1 .. Len(run) :
       run[i] \notin cells \/ run[i] \in forbidden \/ run[i] \in obs
    THEN obs
    ELSE obs \cup { run[i] : i \in 1 .. Min(Len(run), n - Cardinality(obs)) }

PlaceRun(obs, run, forbidden, n) == PlaceRunOn(Cells, obs, run, forbidden, n)

\* The runs the generator can draw on a grid with these cells.
RunsOn(cells) ==
  { RunCells(start, length, h) : start \in cells, length \in 2 .. 6, h \in BOOLEAN }

AllRuns == RunsOn(Cells)

\* The sets the loop can hold after some attempts.  Every attempt that places
\* cells places at least one and fewer than 30 * n placing attempts are needed
\* to place n cells, so the attempts left over can all be failing ones and each
\* of these sets is a possible return value.
RECURSIVE ObstacleClosure(_, _, _, _)
ObstacleClosure(seen, frontier, forbidden, n) ==
  IF frontier = {} THEN seen
  ELSE LET next == { PlaceRun(obs, run, forbidden, n) :
                       obs \in { o \in frontier : Cardinality(o) < n },
                       run \in AllRuns }
       IN  ObstacleClosure(seen \cup frontier, next \ (seen \cup frontier),
                           forbidden, n)

_gen_obstacles(sn, n) == ObstacleClosure({}, {{}}, Forbidden(sn), n)

-----------------------------------------------------------------------------
(* Effect manager.                                                         *)

EmptyMap == [k \in {} |-> 0]

MapSet(m, k, v) == [x \in DOMAIN m \cup {k} |-> IF x = k THEN v ELSE m[x]]

MapGet(m, k, default) == IF k \in DOMAIN m THEN m[k] ELSE default

\* Faulty variant: a kind that is active keeps the expiry it has.
_activate_powerup_no_refresh(G, kind, now) ==
  [G EXCEPT !.effects = IF kind \in DOMAIN @ THEN @
                        ELSE MapSet(@, kind, now + PUP_DUR[kind]),
            !.score_mult = IF kind = "MULTI" THEN 2 ELSE @]

_activate_powerup(G, kind, now) ==
  [G EXCEPT !.effects = MapSet(@, kind, now + PUP_DUR[kind]),
            !.score_mult = IF kind = "MULTI" THEN 2 ELSE @]

\* Faulty variant: expiry leaves the score multiplier as it is.
_expire_effects_keeps_mult(G, now) ==
  LET expired == { k \in DOMAIN G.effects : now >= G.effects[k] }
  IN  [G EXCEPT !.effects = [k \in DOMAIN G.effects \ expired |-> G.effects[k]]]

_expire_effects(G, now) ==
  LET expired == { k \in DOMAIN G.effects : now >= G.effects[k] }
      left == [k \in DOMAIN G.effects \ expired |-> G.effects[k]]
  IN  [G EXCEPT !.effects = left,
                !.score_mult = IF "MULTI" \notin DOMAIN left THEN 1 ELSE @]

-----------------------------------------------------------------------------
(* class Game.  A game is a record of the fields of the object that the    *)
(* simulation reads or writes.                                             *)

StartCell == <<GRID_W \div 2, GRID_H \div 2>>

\* _reseed up to the initial foods (lines 276-287), for each obstacle set
\* _gen_obstacles may return.
ReseedWorld(G) ==
  LET params == DIFFICULTIES[G.difficulty]
      sn == NewSnake(StartCell)
  IN  { [G EXCEPT !.base_speed = params.speed,
                  !.speed = params.speed,
                  !.step_dt = 1000000 \div params.speed,
                  !.pup_every = params.powerup_every,
                  !.snake = sn,
                  !.obstacles = obs,
                  !.foods = << >>,
                  !.powerups = << >>,
                  !.occupied = CellSet(sn.body) \cup obs] :
          obs \in IF G.maze THEN _gen_obstacles(sn, params.obstacles) ELSE {{}} }

\* _reseed from line 291 on.
ReseedScores(G) ==
  [G EXCEPT !.score = 0, !.score_mult = 1, !.effects = EmptyMap,
            !.elapsed = 0, !.normal_eaten = 0, !.pup_timer = 0]

\* Every outcome of _reseed; it leaves step_timer alone.
_reseed(G) ==
  { ReseedScores(R) : R \in SpawnFoodAll(SpawnFoodAll(SpawnFoodAll(ReseedWorld(G)))) }

start_game(G) == { [R EXCEPT !.state = "RUNNING"] : R \in _reseed(G) }

to_menu(G) == [G EXCEPT !.state = "MENU"]

\* Faulty variant: pausing also flips the wrap option.
to_pause_flips_wrap(G) == [G EXCEPT !.state = "PAUSED", !.wrap = ~@]

to_pause(G) == [G EXCEPT !.state = "PAUSED"]

\* Faulty variant: the highscore is written when the score is not below it.
to_over_not_below(G) ==
  LET key == ruleset_key(G.difficulty, G.wrap, G.maze)
      prev == MapGet(G.highscores, key, 0)
  IN  IF G.score >= prev
        THEN [game |-> [G EXCEPT !.state = "GAME_OVER",
                                 !.highscores = MapSet(@, key, G.score)],
              saved |-> TRUE]
        ELSE [game |-> [G EXCEPT !.state = "GAME_OVER"], saved |-> FALSE]

\* to_over returns the game and whether save_highscores was called.
to_over(G) ==
  LET key == ruleset_key(G.difficulty, G.wrap, G.maze)
      prev == MapGet(G.highscores, key, 0)
  IN  IF G.score > prev
        THEN [game |-> [G EXCEPT !.state = "GAME_OVER",
                                 !.highscores = MapSet(@, key, G.score)],
              saved |-> TRUE]
        ELSE [game |-> [G EXCEPT !.state = "GAME_OVER"], saved |-> FALSE]

\* Game.__init__ before its call of _reseed, with the highscores it loaded.
NewGame(hs) ==
  [ state |-> "MENU", difficulty |-> "NORMAL", wrap |-> FALSE, maze |-> FALSE,
    base_speed |-> DIFFICULTIES["NORMAL"].speed,
    speed |-> DIFFICULTIES["NORMAL"].speed,
    step_timer |-> 0,
    step_dt |-> 1000000 \div DIFFICULTIES["NORMAL"].speed,
    snake |-> NewSnake(StartCell),
    obstacles |-> {}, foods |-> << >>, powerups |-> << >>, occupied |-> {},
    score |-> 0, score_mult |-> 1, effects |-> EmptyMap, elapsed |-> 0,
    normal_eaten |-> 0, highscores |-> hs, pup_timer |-> 0,
    pup_every |-> DIFFICULTIES["NORMAL"].powerup_every ]

(* handle_events, for one KEYDOWN event.                                   *)

\* The keys of the model; SPACE, which the handler treats as RETURN, is left out.
Keys ==
  { "ESCAPE", "RETURN", "TAB", "a", "d", "m", "p", "r", "s", "w",
    "UP", "DOWN", "LEFT", "RIGHT" }

NextDifficulty(d) ==
  LET i == CHOOSE j \in 1 .. 3 : DifficultyNames[j] = d
  IN  DifficultyNames[(i % 3) + 1]

\* Faulty variant: the escape key leaves a paused round for the menu.
EscapeKey_to_menu(G) ==
  IF G.state = "RUNNING" THEN to_pause(G)
  ELSE IF G.state = "PAUSED" THEN to_menu(G)
  ELSE G

\* Lines 402-409; the escape key in MENU or GAME_OVER ends the process and is
\* not a step of the model.
EscapeKey(G) ==
  IF G.state = "RUNNING" THEN to_pause(G)
  ELSE IF G.state = "PAUSED" THEN [G EXCEPT !.state = "RUNNING"]
  ELSE G

\* Lines 411-449, every outcome.
StateKey(G, key) ==
  IF G.state = "MENU" THEN
    IF key \in {"RETURN", "SPACE"} THEN start_game(G)
    ELSE IF key = "d" THEN _reseed([G EXCEPT !.difficulty = NextDifficulty(@)])
    ELSE IF key = "w" THEN _reseed([G EXCEPT !.wrap = ~@])
    ELSE IF key = "m" THEN _reseed([G EXCEPT !.maze = ~@])
    ELSE {G}
  ELSE IF G.state = "RUNNING" THEN
    IF key = "p" THEN {to_pause(G)}
    ELSE IF key \in {"UP", "w"} THEN {[G EXCEPT !.snake = set_dir(@, <<0, -1>>)]}
    ELSE IF key \in {"DOWN", "s"} THEN {[G EXCEPT !.snake = set_dir(@, <<0, 1>>)]}
    ELSE IF key \in {"LEFT", "a"} THEN {[G EXCEPT !.snake = set_dir(@, <<-1, 0>>)]}
    ELSE IF key \in {"RIGHT", "d"} THEN {[G EXCEPT !.snake = set_dir(@, <<1, 0>>)]}
    ELSE {G}
  ELSE IF G.state = "PAUSED" THEN
    IF key \in {"RETURN", "p", "SPACE"} THEN {[G EXCEPT !.state = "RUNNING"]}
    ELSE {G}
  ELSE \* GAME_OVER
    IF key = "r" THEN start_game(G)
    ELSE IF key = "TAB" THEN {to_menu(G)}
    ELSE {G}

KeyDown(G, key) == StateKey(IF key = "ESCAPE" THEN EscapeKey(G) ELSE G, key)

(* update(dt).                                                             *)

\* Faulty variant: the SLOW effect halves the target speed.
UpdateClock_slow_half(G, dt, now) ==
  LET G1 == _expire_effects(G, now)
      ramped == clamp(G1.base_speed + G1.normal_eaten * RAMP_PER_NORMAL,
                      G1.base_speed, MAX_SPEED)
      target_speed == IF "SLOW" \in DOMAIN G1.effects
                        THEN (ramped * 5) \div 10 ELSE ramped
      speed == G1.speed + ((target_speed - G1.speed) * Min(1000, dt * 4)) \div 1000
  IN  [G1 EXCEPT !.elapsed = @ + dt,
                 !.speed = speed,
                 !.step_dt = 1000000 \div speed,
                 !.pup_timer = @ + dt,
                 !.step_timer = @ + dt]

\* Faulty variant: the speed is moved away from the target.
UpdateClock_away(G, dt, now) ==
  LET G1 == _expire_effects(G, now)
      ramped == clamp(G1.base_speed + G1.normal_eaten * RAMP_PER_NORMAL,
                      G1.base_speed, MAX_SPEED)
      target_speed == IF "SLOW" \in DOMAIN G1.effects
                        THEN (ramped * 7) \div 10 ELSE ramped
      speed == G1.speed - ((target_speed - G1.speed) * Min(1000, dt * 4)) \div 1000
  IN  [G1 EXCEPT !.elapsed = @ + dt,
                 !.speed = speed,
                 !.step_dt = 1000000 \div speed,
                 !.pup_timer = @ + dt,
                 !.step_timer = @ + dt]

\* Faulty variant: update does not expire the effects.
UpdateClock_no_expiry(G, dt, now) ==
  LET ramped == clamp(G.base_speed + G.normal_eaten * RAMP_PER_NORMAL,
                      G.base_speed, MAX_SPEED)
      target_speed == IF "SLOW" \in DOMAIN G.effects
                        THEN (ramped * 7) \div 10 ELSE ramped
      speed == G.speed + ((target_speed - G.speed) * Min(1000, dt * 4)) \div 1000
  IN  [G EXCEPT !.elapsed = @ + dt,
                !.speed = speed,
                !.step_dt = 1000000 \div speed,
                !.pup_timer = @ + dt,
                !.step_timer = @ + dt]

\* Faulty variant: the accumulator is set to dt, the remainder of the update
\* before is dropped.
UpdateClock_no_accumulate(G, dt, now) ==
  LET G1 == _expire_effects(G, now)
      ramped == clamp(G1.base_speed + G1.normal_eaten * RAMP_PER_NORMAL,
                      G1.base_speed, MAX_SPEED)
      target_speed == IF "SLOW" \in DOMAIN G1.effects
                        THEN (ramped * 7) \div 10 ELSE ramped
      speed == G1.speed + ((target_speed - G1.speed) * Min(1000, dt * 4)) \div 1000
  IN  [G1 EXCEPT !.elapsed = @ + dt,
                 !.speed = speed,
                 !.step_dt = 1000000 \div speed,
                 !.pup_timer = @ + dt,
                 !.step_timer = dt]

\* Lines 455-474 without the power-up spawn: now is pygame.time.get_ticks().
UpdateClock(G, dt, now) ==
  LET G1 == _expire_effects(G, now)
      ramped == clamp(G1.base_speed + G1.normal_eaten * RAMP_PER_NORMAL,
                      G1.base_speed, MAX_SPEED)
      target_speed == IF "SLOW" \in DOMAIN G1.effects
                        THEN (ramped * 7) \div 10 ELSE ramped
      speed == G1.speed + ((target_speed - G1.speed) * Min(1000, dt * 4)) \div 1000
  IN  [G1 EXCEPT !.elapsed = @ + dt,
                 !.speed = speed,
                 !.step_dt = 1000000 \div speed,
                 !.pup_timer = @ + dt,
                 !.step_timer = @ + dt]

\* Every outcome of update(dt) up to the while loop.
UpdateBegin(G, dt, now) ==
  LET G1 == UpdateClock(G, dt, now)
  IN  IF G1.pup_timer >= G1.pup_every
        THEN SpawnPowerupResults([G1 EXCEPT !.pup_timer = 0])
        ELSE {G1}

\* The index of the first item of the list at the cell, 0 for None.
FirstAt(items, cell) ==
  IF \E i \in 1 .. Len(items) : items[i].pos = cell
    THEN CHOOSE i \in 1 .. Len(items) :
           /\ items[i].pos = cell
           /\ \A j \in 1 .. i - 1 : items[j].pos # cell
    ELSE 0

\* Faulty variant: the poison pops two tails without testing the length again.
Shrink_unguarded(body) ==
  IF Len(body) > 2 THEN SubSeq(body, 1, Len(body) - 2) ELSE body

\* Lines 505-508: the body after the poison, and the tails it popped.
Shrink(body) ==
  IF Len(body) > 3 THEN SubSeq(body, 1, Len(body) - 2)
  ELSE IF Len(body) > 2 THEN SubSeq(body, 1, Len(body) - 1)
  ELSE body

PoppedTails(body) == { body[i] : i \in Len(Shrink(body)) + 1 .. Len(body) }

\* Faulty variant: a NORMAL food grows the snake as a GOLD one does.
Feed_normal_as_gold(sn, kind) ==
  IF kind = "POISON" THEN [sn EXCEPT !.body = Shrink(@)]
  ELSE [sn EXCEPT !.grow = @ + 2]

\* What eating a food does to the snake (lines 494, 499 and 505-507).
Feed(sn, kind) ==
  IF kind = "NORMAL" THEN [sn EXCEPT !.grow = @ + 1]
  ELSE IF kind = "GOLD" THEN [sn EXCEPT !.grow = @ + 2]
  ELSE [sn EXCEPT !.body = Shrink(@)]

\* Faulty variant: POISON takes 20 points without the floor at 0.
EatFood_no_floor(G, i) ==
  LET f == G.foods[i]
      G1 == [G EXCEPT !.foods = RemoveAt(@, i), !.occupied = @ \ {f.pos},
                      !.snake = Feed(@, f.kind)]
  IN  IF f.kind = "NORMAL"
        THEN [G1 EXCEPT !.score = @ + 10 * G1.score_mult,
                        !.normal_eaten = @ + 1]
      ELSE IF f.kind = "GOLD"
        THEN [G1 EXCEPT !.score = @ + 30 * G1.score_mult]
      ELSE [G1 EXCEPT !.score = @ - 20,
                      !.occupied = @ \ PoppedTails(G.snake.body)]

\* Lines 491-509: the eaten food is popped and takes effect.
EatFood(G, i) ==
  LET f == G.foods[i]
      G1 == [G EXCEPT !.foods = RemoveAt(@, i), !.occupied = @ \ {f.pos},
                      !.snake = Feed(@, f.kind)]
  IN  IF f.kind = "NORMAL"
        THEN [G1 EXCEPT !.score = @ + 10 * G1.score_mult,
                        !.normal_eaten = @ + 1]
      ELSE IF f.kind = "GOLD"
        THEN [G1 EXCEPT !.score = @ + 30 * G1.score_mult]
      ELSE [G1 EXCEPT !.score = Max(0, @ - 20),
                      !.occupied = @ \ PoppedTails(G.snake.body)]

\* Faulty variant: the eaten food is not replaced.
FoodCollision_no_respawn(G) ==
  LET i == FirstAt(G.foods, G.snake.body[1])
  IN  IF i = 0 THEN {G} ELSE {EatFood(G, i)}

\* Lines 484-510, every outcome.
FoodCollision(G) ==
  LET i == FirstAt(G.foods, G.snake.body[1])
  IN  IF i = 0 THEN {G} ELSE SpawnFoodResults(EatFood(G, i))

\* Lines 512-521.
PowerupCollision(G, now) ==
  LET i == FirstAt(G.powerups, G.snake.body[1])
  IN  IF i = 0 THEN G
      ELSE _activate_powerup(
             [G EXCEPT !.powerups = RemoveAt(@, i),
                       !.occupied = @ \ {G.powerups[i].pos}],
             G.powerups[i].kind, now)

\* Line 524.
Occupancy(G) ==
  CellSet(G.snake.body) \cup G.obstacles
    \cup { G.foods[i].pos : i \in 1 .. Len(G.foods) }
    \cup { G.powerups[i].pos : i \in 1 .. Len(G.powerups) }

\* Faulty variant: a failing step does not end the round.
LoopBody_no_over(G, now) ==
  LET res == step(G.snake, G.wrap, "GHOST" \in DOMAIN G.effects, G.obstacles)
      G1 == [G EXCEPT !.step_timer = @ - G.step_dt, !.snake = res.snake]
      fi == FirstAt(G1.foods, G1.snake.body[1])
      pi == FirstAt(G1.powerups, G1.snake.body[1])
  IN  IF res.reason # "NONE"
        THEN { [game |-> G1, reason |-> res.reason,
                saved |-> FALSE, ate |-> "NONE", pu |-> "NONE"] }
        ELSE { [game |-> [G3 EXCEPT !.occupied = Occupancy(G3)],
                reason |-> "NONE", saved |-> FALSE,
                ate |-> IF fi = 0 THEN "NONE" ELSE G1.foods[fi].kind,
                pu |-> IF pi = 0 THEN "NONE" ELSE G1.powerups[pi].kind] :
                 G3 \in { PowerupCollision(G2, now) : G2 \in FoodCollision(G1) } }

\* One iteration of the while loop (lines 476-524), every outcome, as
\* [game, reason, saved, ate, pu]: the reason step() returned, whether
\* save_highscores was called and the kinds of the food and power-up eaten.
LoopBody(G, now) ==
  LET res == step(G.snake, G.wrap, "GHOST" \in DOMAIN G.effects, G.obstacles)
      G1 == [G EXCEPT !.step_timer = @ - G.step_dt, !.snake = res.snake]
      fi == FirstAt(G1.foods, G1.snake.body[1])
      pi == FirstAt(G1.powerups, G1.snake.body[1])
  IN  IF res.reason # "NONE"
        THEN { [game |-> to_over(G1).game, reason |-> res.reason,
                saved |-> to_over(G1).saved, ate |-> "NONE", pu |-> "NONE"] }
        ELSE { [game |-> [G3 EXCEPT !.occupied = Occupancy(G3)],
                reason |-> "NONE", saved |-> FALSE,
                ate |-> IF fi = 0 THEN "NONE" ELSE G1.foods[fi].kind,
                pu |-> IF pi = 0 THEN "NONE" ELSE G1.powerups[pi].kind] :
                 G3 \in { PowerupCollision(G2, now) : G2 \in FoodCollision(G1) } }

-----------------------------------------------------------------------------
(* The state.                                                              *)

VARIABLES
  game,     \* the Game object
  clock,    \* pygame.time.get_ticks(), in milliseconds
  pc,       \* "idle" between the calls of run(), "loop" inside update's while loop,
            \* "returned" after the call of _free_cell on its own
  saves,    \* calls of save_highscores since the round was started
  eaten,    \* the foods of each kind and the power-ups eaten since the round was started
  ticks,    \* iterations of run() so far
  toggles,  \* option changes so far
  last      \* the latest call that is recorded: its name, argument and results

vars == <<game, clock, pc, saves, eaten, ticks, toggles, last>>

\* A call: ret is what it returned ("NONE" for None), saved whether it called
\* save_highscores, ate and pu the kinds of the food and the power-up eaten.
Call(op, arg, ret, saved, ate, pu) ==
  [op |-> op, arg |-> arg, ret |-> ret, saved |-> saved, ate |-> ate, pu |-> pu]

NoCall == Call("none", "NONE", "NONE", FALSE, "NONE", "NONE")

\* The arguments of a call of Snake.step.
StepArgs(wrap, ghost, obs) == [wrap |-> wrap, ghost |-> ghost, obstacles |-> obs]

NoneEaten == [NORMAL |-> 0, GOLD |-> 0, POISON |-> 0, POWERUP |-> 0]

Eat(e, ate, pu) ==
  [k \in DOMAIN e |-> IF k = ate \/ (k = "POWERUP" /\ pu # "NONE")
                        THEN e[k] + 1 ELSE e[k]]

\* The highscores load_highscores may find in the score file.
StoredHighscores == { EmptyMap }

\* Game() : __init__ ends with _reseed.
InitGames == UNION { _reseed(NewGame(hs)) : hs \in StoredHighscores }

Init ==
  /\ game \in InitGames
  /\ clock = 0
  /\ pc = "idle"
  /\ saves = 0
  /\ eaten = NoneEaten
  /\ ticks = 0
  /\ toggles = 0
  /\ last = NoCall

IsToggle(G, key) == G.state = "MENU" /\ key \in {"d", "w", "m"}

IsStart(G, key) ==
  \/ G.state = "MENU" /\ key \in {"RETURN", "SPACE"}
  \/ G.state = "GAME_OVER" /\ key = "r"

\* handle_events takes one KEYDOWN event from the queue.
KeyEvent(key) ==
  /\ pc = "idle"
  /\ IsToggle(game, key) => toggles < MaxToggles
  /\ game' \in KeyDown(game, key)
  /\ toggles' = IF IsToggle(game, key) THEN toggles + 1 ELSE toggles
  /\ saves' = IF IsStart(game, key) THEN 0 ELSE saves
  /\ eaten' = IF IsStart(game, key) THEN NoneEaten ELSE eaten
  /\ UNCHANGED <<clock, pc, ticks, last>>

\* Faulty variant: update without the test of the session state.
TickWithin_unguarded(dt, bound) ==
  /\ pc = "idle"
  /\ ticks < bound
  /\ ticks' = ticks + 1
  /\ clock' = clock + dt
  /\ last' = Call("update", dt, "NONE", FALSE, "NONE", "NONE")
  /\ game' \in UpdateBegin(game, dt, clock')
  /\ pc' = IF game'.step_timer >= game'.step_dt THEN "loop" ELSE "idle"
  /\ UNCHANGED <<saves, eaten, toggles>>

\* run() calls clock.tick, which returns dt, and then update(dt): the part of
\* update before its while loop, in a run of at most `bound` iterations.
TickWithin(dt, bound) ==
  /\ pc = "idle"
  /\ ticks < bound
  /\ ticks' = ticks + 1
  /\ clock' = clock + dt
  /\ last' = Call("update", dt, "NONE", FALSE, "NONE", "NONE")
  /\ IF game.state # "RUNNING"
       THEN /\ game' = game
            /\ pc' = "idle"
       ELSE /\ game' \in UpdateBegin(game, dt, clock')
            /\ pc' = IF game'.step_timer >= game'.step_dt THEN "loop" ELSE "idle"
  /\ UNCHANGED <<saves, eaten, toggles>>

Tick(dt) == TickWithin(dt, MaxTicks)

\* One iteration of update's while loop.
LoopStep ==
  /\ pc = "loop"
  /\ \E r \in LoopBody(game, clock) :
       /\ game' = r.game
       /\ last' = Call("step",
                       StepArgs(game.wrap, "GHOST" \in DOMAIN game.effects, game.obstacles),
                       r.reason, r.saved, r.ate, r.pu)
       /\ saves' = IF r.saved THEN saves + 1 ELSE saves
       /\ eaten' = Eat(eaten, r.ate, r.pu)
       /\ pc' = IF r.reason = "NONE" /\ r.game.step_timer >= r.game.step_dt
                  THEN "loop" ELSE "idle"
  /\ UNCHANGED <<clock, ticks, toggles>>

Next ==
  \/ \E key \in Keys : KeyEvent(key)
  \/ \E dt \in {DtFrame, DtSlow} : Tick(dt)
  \/ LoopStep

Spec == Init /\ [][Next]_vars

\* update is not suspended inside its while loop: an iteration that can be
\* taken is taken.
FairSpec == Spec /\ WF_vars(LoopStep)

-----------------------------------------------------------------------------
(* The Snake class on its own: a snake as Snake(start) makes it, and calls *)
(* of set_dir and step with any arguments, and of the feeding lines of     *)
(* update after a step that succeeded.  The snake is game.snake.           *)

\* The obstacle sets given to step.
ObstacleInputs == { {}, {<<0, 0>>}, {<<0, 0>>, <<GRID_W - 1, GRID_H - 1>>} }

InitSnake ==
  /\ game = NewGame(EmptyMap)
  /\ clock = 0
  /\ pc = "idle"
  /\ saves = 0
  /\ eaten = NoneEaten
  /\ ticks = 0
  /\ toggles = 0
  /\ last = NoCall

SnakeSetDir(d) ==
  /\ game.snake.alive
  /\ game' = [game EXCEPT !.snake = set_dir(@, d)]
  /\ last' = Call("set_dir", d, "NONE", FALSE, "NONE", "NONE")
  /\ UNCHANGED <<clock, pc, saves, eaten, ticks, toggles>>

SnakeStep(wrap, ghost, obs) ==
  /\ game.snake.alive
  /\ LET res == step(game.snake, wrap, ghost, obs)
     IN  /\ game' = [game EXCEPT !.snake = res.snake]
         /\ last' = Call("step", StepArgs(wrap, ghost, obs), res.reason,
                         FALSE, "NONE", "NONE")
  /\ UNCHANGED <<clock, pc, saves, eaten, ticks, toggles>>

\* Lines 490-508 for a food of the kind under the head the step moved.
SnakeFeed(kind) ==
  /\ game.snake.alive
  /\ last.op = "step" /\ last.ret = "NONE"
  /\ kind # "POISON" => Len(game.snake.body) + game.snake.grow < MaxLen
  /\ game' = [game EXCEPT !.snake = Feed(@, kind)]
  /\ last' = Call("feed", kind, "NONE", FALSE, kind, "NONE")
  /\ UNCHANGED <<clock, pc, saves, eaten, ticks, toggles>>

NextSnake ==
  \/ \E d \in Directions : SnakeSetDir(d)
  \/ \E wrap \in BOOLEAN, ghost \in BOOLEAN, obs \in ObstacleInputs :
       SnakeStep(wrap, ghost, obs)
  \/ \E kind \in FoodKinds : SnakeFeed(kind)

SpecSnake == InitSnake /\ [][NextSnake]_vars

-----------------------------------------------------------------------------
(* One call of _free_cell on its own: any occupancy set and the draws of   *)
(* AllDraws.                                                               *)

InitFree ==
  /\ game \in { [NewGame(EmptyMap) EXCEPT !.occupied = occ] : occ \in SUBSET Cells }
  /\ clock = 0
  /\ pc = "idle"
  /\ saves = 0
  /\ eaten = NoneEaten
  /\ ticks = 0
  /\ toggles = 0
  /\ last = NoCall

\* A call of _free_cell that returns; arg tells whether the scan was reached.
FreeCell(draws) ==
  /\ pc = "idle"
  /\ _free_cell(game.occupied, draws) # NoCell
  /\ pc' = "returned"
  /\ last' = Call("_free_cell",
                  IF \A t \in DOMAIN draws : draws[t] \in game.occupied
                    THEN "scan" ELSE "random",
                  _free_cell(game.occupied, draws), FALSE, "NONE", "NONE")
  /\ UNCHANGED <<game, clock, saves, eaten, ticks, toggles>>

NextFree == \E draws \in AllDraws : FreeCell(draws)

SpecFree == InitFree /\ [][NextFree]_vars

-----------------------------------------------------------------------------
(* The program set to EASY in the menu (the d key, twice), wrap and maze   *)
(* off, in runs where every food the generator makes is NORMAL and every   *)
(* frame is a regular one.                                                 *)

NormalFoods(G) == \A i \in 1 .. Len(G.foods) : G.foods[i].kind = "NORMAL"

EasyGames ==
  { G \in UNION { KeyDown(H, "d") : H \in UNION { KeyDown(I, "d") : I \in InitGames } } :
      NormalFoods(G) }

InitEasy ==
  /\ game \in EasyGames
  /\ clock = 0
  /\ pc = "idle"
  /\ saves = 0
  /\ eaten = NoneEaten
  /\ ticks = 0
  /\ toggles = MaxToggles
  /\ last = NoCall

NextEasy ==
  \/ \E key \in Keys : KeyEvent(key) /\ NormalFoods(game')
  \/ TickWithin(DtFrame, EasyTicks)
  \/ LoopStep /\ NormalFoods(game')

SpecEasy == InitEasy /\ [][NextEasy]_vars

-----------------------------------------------------------------------------
(* The effect manager on its own: the effects of a game at the wall clock, *)
(* with the calls update and _reseed make of it in any order.  The clock   *)
(* is the one update reads (pygame.time.get_ticks), which never goes back. *)

InitEffects ==
  /\ game = NewGame(EmptyMap)
  /\ clock = 0
  /\ pc = "idle"
  /\ saves = 0
  /\ eaten = NoneEaten
  /\ ticks = 0
  /\ toggles = 0
  /\ last = NoCall

\* Lines 455-456: an update dt after the last one reads the clock and expires
\* the effects.
EffectsExpire(dt) ==
  /\ ticks < EffectTicks
  /\ ticks' = ticks + 1
  /\ clock' = clock + dt
  /\ game' = _expire_effects(game, clock')
  /\ last' = Call("_expire_effects", clock', "NONE", FALSE, "NONE", "NONE")
  /\ UNCHANGED <<pc, saves, eaten, toggles>>

\* Line 521: a step of the update takes a power-up of the kind.  ret records
\* the expiry the kind had before the call, 0 for none.
EffectsActivate(kind) ==
  /\ game' = _activate_powerup(game, kind, clock)
  /\ last' = Call("_activate_powerup", [kind |-> kind, now |-> clock],
                  MapGet(game.effects, kind, 0), FALSE, "NONE", kind)
  /\ UNCHANGED <<clock, pc, saves, eaten, ticks, toggles>>

\* Lines 291-296 of _reseed.
EffectsReset ==
  /\ game' = ReseedScores(game)
  /\ last' = Call("_reseed", "NONE", "NONE", FALSE, "NONE", "NONE")
  /\ UNCHANGED <<clock, pc, saves, eaten, ticks, toggles>>

NextEffects ==
  \/ \E dt \in {DtFrame, DtSlow} : EffectsExpire(dt)
  \/ \E kind \in POWERUP_TYPES : EffectsActivate(kind)
  \/ EffectsReset

SpecEffects == InitEffects /\ [][NextEffects]_vars

-----------------------------------------------------------------------------
(* One call of _gen_obstacles(n) on its own, attempt by attempt, on a grid *)
(* of ObstacleW by ObstacleH cells with the new snake at its centre.       *)
(* game.obstacles is the local obs, ticks is the local tries, and last     *)
(* holds the call: its n, and in ret the set it returned once it has       *)
(* returned (the empty set before).                                        *)

ObstacleCells == (0 .. ObstacleW - 1) \X (0 .. ObstacleH - 1)

ObstacleStart == <<ObstacleW \div 2, ObstacleH \div 2>>

ObstacleForbidden == ForbiddenOn(ObstacleW, ObstacleH, ObstacleStart)

InitObstacles ==
  /\ game = [NewGame(EmptyMap) EXCEPT !.snake = NewSnake(ObstacleStart),
                                      !.obstacles = {}]
  /\ clock = 0
  /\ pc = "loop"
  /\ saves = 0
  /\ eaten = NoneEaten
  /\ ticks = 0
  /\ toggles = 0
  /\ last \in { Call("_gen_obstacles", n, {}, FALSE, "NONE", "NONE") :
                  n \in 0 .. MaxObstacles }

\* The guard of the while loop (line 320).
ObstacleLoopGoesOn ==
  Cardinality(game.obstacles) < last.arg /\ ticks < last.arg * RetryFactor

\* One iteration of the while loop with the run it draws (lines 321-339).
ObstacleAttempt(run) ==
  /\ pc = "loop"
  /\ ObstacleLoopGoesOn
  /\ ticks' = ticks + 1
  /\ game' = [game EXCEPT !.obstacles =
                 PlaceRunOn(ObstacleCells, @, run, ObstacleForbidden, last.arg)]
  /\ UNCHANGED <<clock, pc, saves, eaten, toggles, last>>

\* Line 340.
ObstacleReturn ==
  /\ pc = "loop"
  /\ ~ObstacleLoopGoesOn
  /\ pc' = "returned"
  /\ last' = [last EXCEPT !.ret = game.obstacles]
  /\ UNCHANGED <<game, clock, saves, eaten, ticks, toggles>>

NextObstacles ==
  \/ \E run \in RunsOn(ObstacleCells) : ObstacleAttempt(run)
  \/ ObstacleReturn

SpecObstacles == InitObstacles /\ [][NextObstacles]_vars

\* The call is not suspended for ever: an iteration or the return that can be
\* taken is taken.
FairObstacles == SpecObstacles /\ WF_vars(NextObstacles)

-----------------------------------------------------------------------------
(* Properties of the Snake class (checked under SpecSnake).                *)

\* Some call of step, with any arguments.
StepTaken ==
  \E wrap \in BOOLEAN, ghost \in BOOLEAN, obs \in ObstacleInputs :
    SnakeStep(wrap, ghost, obs)

\* set_dir(d) asks for the exact opposite of the current direction of a snake
\* longer than one cell.
Reversal(sn, d) ==
  Len(sn.body) > 1 /\ d[1] = -sn.dir[1] /\ d[2] = -sn.dir[2]

\* The cell one move from the head in the buffered direction, before and after
\* the reduction modulo the grid.
RawHead(sn) == <<sn.body[1][1] + sn.next_dir[1], sn.body[1][2] + sn.next_dir[2]>>

Wrapped(cell) == <<cell[1] % GRID_W, cell[2] % GRID_H>>

InGrid(cell) == cell \in Cells

\* C1: set_dir(d) with d not a reversal buffers d, and the step that follows
\* makes d the current direction; set_dir(d) with d a reversal changes nothing,
\* so that the step that follows applies what was buffered before (the current
\* direction, when nothing else was buffered); and a step of a snake longer
\* than one cell never applies the opposite of the direction of the step before.
C1_DirectionBuffer ==
  [][ /\ \A d \in Directions : SnakeSetDir(d) =>
           IF Reversal(game.snake, d)
             THEN game'.snake = game.snake
             ELSE game'.snake = [game.snake EXCEPT !.next_dir = d]
      /\ StepTaken =>
           /\ game'.snake.dir = game.snake.next_dir
           /\ (last.op = "set_dir" /\ ~Reversal(game.snake, last.arg))
                => game'.snake.dir = last.arg
           /\ (last.op = "set_dir" /\ Reversal(game.snake, last.arg)
               /\ game.snake.next_dir = game.snake.dir)
                => game'.snake.dir = game.snake.dir
           /\ Len(game.snake.body) > 1 =>
                game'.snake.dir # <<-game.snake.dir[1], -game.snake.dir[2]>>
    ]_vars

\* A step has applied a direction that only set_dir can have buffered, to a
\* snake longer than one cell.
C1_Witness ==
  /\ last.op = "step"
  /\ Len(game.snake.body) > 2
  /\ game.snake.dir = <<0, -1>>
  /\ game.snake.alive

\* C4: eating NORMAL or GOLD food never shortens the body; eating POISON
\* shortens it by at most 2 cells and never to below 2; and from the first
\* successful step on the body is at least 2 cells long.
C4_FoodLength ==
  [][ /\ \A kind \in FoodKinds : SnakeFeed(kind) =>
           IF kind = "POISON"
             THEN /\ Len(game'.snake.body) <= Len(game.snake.body)
                  /\ Len(game'.snake.body) >= Len(game.snake.body) - 2
                  /\ Len(game'.snake.body) >= 2
             ELSE Len(game'.snake.body) >= Len(game.snake.body)
      /\ (StepTaken /\ last'.ret = "NONE") => Len(game'.snake.body) >= 2
      /\ Len(game.snake.body) >= 2 => Len(game'.snake.body) >= 2
    ]_vars

\* A POISON food has cut a body of five cells to three.
C4_Witness ==
  /\ last.op = "feed"
  /\ last.arg = "POISON"
  /\ Len(game.snake.body) = 3

\* C5: with ghost active, step succeeds whatever the new head lies on, and the
\* new head is the moved head reduced modulo the grid, with wrap on or off.
C5_Ghost ==
  [][ \A wrap \in BOOLEAN, obs \in ObstacleInputs : SnakeStep(wrap, TRUE, obs) =>
        /\ last'.ret = "NONE"
        /\ game'.snake.alive
        /\ game'.snake.body[1] = Wrapped(RawHead(game.snake))
    ]_vars

\* A ghost step with wrap off has left the grid at the right edge and come
\* back at the left one, onto an obstacle and onto the body.
C5_Witness ==
  /\ last.op = "step" /\ last.ret = "NONE"
  /\ last.arg.ghost /\ ~last.arg.wrap
  /\ Len(game.snake.body) >= 3
  /\ game.snake.body[1] = <<0, 0>>
  /\ game.snake.body[2] = <<GRID_W - 1, 0>>
  /\ game.snake.body[1] \in last.arg.obstacles
  /\ \E i \in 3 .. Len(game.snake.body) : game.snake.body[i] = game.snake.body[1]

\* C6: in wrap mode step never returns WALL, and a head that moves past an
\* edge comes back at the opposite edge with its other coordinate unchanged.
C6_Wrap ==
  [][ \A ghost \in BOOLEAN, obs \in ObstacleInputs : SnakeStep(TRUE, ghost, obs) =>
        LET raw == RawHead(game.snake)
            old == game.snake.body[1]
            new == game'.snake.body[1]
        IN  /\ last'.ret # "WALL"
            /\ last'.ret = "NONE" =>
                 /\ raw[1] = GRID_W => new = <<0, old[2]>>
                 /\ raw[1] = -1 => new = <<GRID_W - 1, old[2]>>
                 /\ raw[2] = GRID_H => new = <<old[1], 0>>
                 /\ raw[2] = -1 => new = <<old[1], GRID_H - 1>>
                 /\ InGrid(raw) => new = raw
    ]_vars

\* A step in wrap mode, ghost inactive, has taken the head from the top row to
\* the bottom row.
C6_Witness ==
  /\ last.op = "step" /\ last.ret = "NONE"
  /\ last.arg.wrap /\ ~last.arg.ghost
  /\ Len(game.snake.body) >= 2
  /\ game.snake.body[2][2] = 0
  /\ game.snake.body[1] = <<game.snake.body[2][1], GRID_H - 1>>

\* C9: with ghost inactive, step returns WALL if wrap is off and the new head
\* is outside the grid, else SELF if the new head is a body cell other than the
\* tail, else OBSTACLE if it is an obstacle cell, else it succeeds; a failing
\* step clears alive and leaves the body and the pending growth as they were.
C9_Failures ==
  [][ \A wrap \in BOOLEAN, obs \in ObstacleInputs : SnakeStep(wrap, FALSE, obs) =>
        LET raw == RawHead(game.snake)
            head == IF wrap THEN Wrapped(raw) ELSE raw
            body == game.snake.body
        IN  /\ last'.ret =
                 IF ~wrap /\ ~InGrid(raw) THEN "WALL"
                 ELSE IF \E i \in 1 .. Len(body) - 1 : body[i] = head THEN "SELF"
                 ELSE IF head \in obs THEN "OBSTACLE"
                 ELSE "NONE"
            /\ last'.ret # "NONE" =>
                 /\ ~game'.snake.alive
                 /\ game'.snake.body = body
                 /\ game'.snake.grow = game.snake.grow
            /\ last'.ret = "NONE" => game'.snake.alive
    ]_vars

\* A step has failed with SELF on a cell that is an obstacle as well.
C9_Witness ==
  /\ last.op = "step" /\ last.ret = "SELF"
  /\ ~last.arg.ghost
  /\ ~game.snake.alive
  /\ LET sn == game.snake
         raw == <<sn.body[1][1] + sn.dir[1], sn.body[1][2] + sn.dir[2]>>
     IN  (IF last.arg.wrap THEN Wrapped(raw) ELSE raw) \in last.arg.obstacles

\* C10: a successful step prepends one head cell, one move (modulo the grid)
\* from the old head; with growth pending it takes 1 off the pending growth and
\* the body is one cell longer, else the tail is removed and the length is the
\* same.  The pending growth is never negative.
C10_Move ==
  [][ /\ (StepTaken /\ last'.ret = "NONE") =>
           LET old == game.snake
               new == game'.snake
           IN  /\ \E d \in Directions :
                    new.body[1] = Wrapped(<<old.body[1][1] + d[1], old.body[1][2] + d[2]>>)
               /\ IF old.grow > 0
                    THEN /\ new.grow = old.grow - 1
                         /\ Len(new.body) = Len(old.body) + 1
                         /\ Tail(new.body) = old.body
                    ELSE /\ new.grow = 0
                         /\ Len(new.body) = Len(old.body)
                         /\ Tail(new.body) = SubSeq(old.body, 1, Len(old.body) - 1)
      /\ game'.snake.grow >= 0
    ]_vars

\* A successful step with no growth pending: the cell the snake started from
\* has left a body that no poison has shortened.
C10_Witness ==
  /\ last.op = "step" /\ last.ret = "NONE"
  /\ game.snake.grow = 0
  /\ Len(game.snake.body) = 3
  /\ StartCell \notin CellSet(game.snake.body)

-----------------------------------------------------------------------------
(* Property of _free_cell (checked under SpecFree).                        *)

\* C3: the cell _free_cell returns is a cell of the grid that is not in the
\* occupancy set of the call, whether a draw or the scan found it.
C3_FreeCell ==
  last.op = "_free_cell" =>
    /\ last.ret \in Cells
    /\ last.ret \notin game.occupied

\* The scan has found the one free cell of a grid that is otherwise occupied,
\* and it is not the first cell of the scan.
C3_Witness ==
  /\ last.op = "_free_cell"
  /\ last.arg = "scan"
  /\ Cells \ game.occupied = {last.ret}
  /\ last.ret # <<0, 0>>

-----------------------------------------------------------------------------
(* Properties of the game (checked under Spec).                            *)

\* The starting speed of the difficulty selected in the menu.
SelectedSpeed == DIFFICULTIES[game.difficulty].speed

RoundEnds == game.state = "RUNNING" /\ game'.state = "GAME_OVER"

\* The ruleset key of the game and the highscore stored for it (0 for none).
RoundKey(G) == ruleset_key(G.difficulty, G.wrap, G.maze)

StoredScore(G) ==
  IF RoundKey(G) \in DOMAIN G.highscores THEN G.highscores[RoundKey(G)] ELSE 0

\* C7: the step that ends a round writes the highscores once, with the score
\* of the round stored for its ruleset, if that score is above the stored one,
\* and does not write otherwise; no other step writes, and a round has at most
\* one write.
C7_Highscore ==
  [][ /\ RoundEnds =>
           IF game.score > StoredScore(game)
             THEN /\ saves' = saves + 1
                  /\ last'.saved
                  /\ StoredScore(game') = game.score
                  /\ \A k \in DOMAIN game.highscores \ {RoundKey(game)} :
                       k \in DOMAIN game'.highscores /\ game'.highscores[k] = game.highscores[k]
             ELSE /\ saves' = saves
                  /\ ~last'.saved
                  /\ game'.highscores = game.highscores
      /\ ~RoundEnds =>
           /\ saves' = saves \/ saves' = 0
           /\ game'.highscores = game.highscores
      /\ saves' <= 1
    ]_vars

\* A round has ended with a score above zero that is not above the highscore an
\* earlier round has stored, and nothing was written.
C7_Witness ==
  /\ game.state = "GAME_OVER"
  /\ last.op = "step" /\ ~last.saved
  /\ saves = 0
  /\ game.score > 0
  /\ RoundKey(game) \in DOMAIN game.highscores
  /\ game.score <= StoredScore(game)

-----------------------------------------------------------------------------
(* Property of the EASY game (checked under SpecEasy).                     *)

\* C8: in a round of the EASY game without wrap and maze, when three NORMAL
\* foods and nothing else have been eaten, the score is 30, normal_eaten is 3,
\* the body and the pending growth make 6 cells, and the body is 6 cells long
\* once no growth is pending.
C8_ThreeNormalFoods ==
  ( /\ game.difficulty = "EASY" /\ ~game.wrap /\ ~game.maze
    /\ game.state # "MENU"
    /\ eaten = [NORMAL |-> 3, GOLD |-> 0, POISON |-> 0, POWERUP |-> 0] )
  => /\ game.score = 30
     /\ game.normal_eaten = 3
     /\ Len(game.snake.body) + game.snake.grow = 6
     /\ game.snake.grow = 0 => Len(game.snake.body) = 6

\* Three NORMAL foods and nothing else have been eaten and the snake has grown
\* to its full length.
C8_Witness ==
  /\ game.difficulty = "EASY" /\ ~game.wrap /\ ~game.maze
  /\ game.state = "RUNNING"
  /\ eaten = [NORMAL |-> 3, GOLD |-> 0, POISON |-> 0, POWERUP |-> 0]
  /\ game.snake.grow = 0
  /\ Len(game.snake.body) = 6
  /\ game.score = 30

-----------------------------------------------------------------------------
(* Further properties of the EASY game (checked under SpecEasy).           *)

\* C11, as stated: in every state between two steps the cells of the snake's
\* body are pairwise distinct.
C11_AsStated ==
  \A i, j \in 1 .. Len(game.snake.body) :
    i # j => game.snake.body[i] # game.snake.body[j]

-----------------------------------------------------------------------------
(* Further properties of the game (checked under Spec).                    *)

\* The changes of the session state that the state machine has.
SessionTransitions ==
  { <<"MENU", "RUNNING">>, <<"RUNNING", "PAUSED">>, <<"PAUSED", "RUNNING">>,
    <<"RUNNING", "GAME_OVER">>, <<"GAME_OVER", "RUNNING">>, <<"GAME_OVER", "MENU">> }

\* C12: the session state changes only from MENU to RUNNING, from RUNNING to
\* PAUSED or GAME_OVER, from PAUSED to RUNNING and from GAME_OVER to RUNNING or
\* MENU, and it ends a round only in a step that fails.
C12_SessionStates ==
  [][ /\ game'.state \in {"MENU", "RUNNING", "PAUSED", "GAME_OVER"}
      /\ game'.state # game.state =>
           /\ <<game.state, game'.state>> \in SessionTransitions
           /\ game'.state = "GAME_OVER" =>
                (last'.op = "step" /\ last'.ret # "NONE" /\ pc = "loop")
    ]_vars

\* A round that ran through every update of the run was lost in a failing step
\* and left for the menu.
C12_Witness ==
  /\ game.state = "MENU"
  /\ last.op = "step" /\ last.ret # "NONE"
  /\ ticks = MaxTicks
  /\ game.elapsed > DtFrame

\* What C13 lists of the simulation.
Simulation(G) ==
  << G.snake.body, G.snake.dir, G.snake.next_dir, G.snake.grow, G.score,
     G.foods, G.powerups, G.speed, G.step_timer, G.pup_timer >>

\* The keys that are movement commands in the state of G: the arrow keys, and
\* w, a, s, d where they are not the menu's option commands.
MovementKeys(G) ==
  {"UP", "DOWN", "LEFT", "RIGHT"} \cup { k \in {"w", "a", "s", "d"} : ~IsToggle(G, k) }

\* C13: while the session is PAUSED, in MENU or GAME_OVER, an update and a
\* movement command leave the snake's body, direction, buffered direction and
\* pending growth, the score, the foods, the power-ups, the speed, the step
\* accumulator and the power-up timer as they are, and leave the session state.
C13_Suspended ==
  [][ ( /\ game.state # "RUNNING"
        /\ \/ \E dt \in {DtFrame, DtSlow} : Tick(dt)
           \/ \E key \in MovementKeys(game) : KeyEvent(key) )
      => /\ Simulation(game') = Simulation(game)
         /\ game'.state = game.state
    ]_vars

\* The session is PAUSED after an update: the clock has passed the expiry of an
\* effect, and the effect is still there.
C13_Witness ==
  /\ game.state = "PAUSED"
  /\ last.op = "update"
  /\ \E k \in DOMAIN game.effects : game.effects[k] <= clock
  /\ Len(game.snake.body) >= 2

\* C14: a failing step of an update takes the session to GAME_OVER at once and
\* ends the update: nothing is eaten or spawned and no further step is taken;
\* the session enters GAME_OVER in no other way; and in RUNNING and PAUSED the
\* snake is alive.
C14_RoundEnd ==
  [][ /\ (LoopStep /\ last'.ret # "NONE") =>
           /\ game'.state = "GAME_OVER"
           /\ pc' = "idle"
           /\ ~game'.snake.alive
           /\ game'.foods = game.foods
           /\ game'.powerups = game.powerups
           /\ last'.ate = "NONE" /\ last'.pu = "NONE"
      /\ (game'.state = "GAME_OVER" /\ game.state # "GAME_OVER") =>
           /\ game.state = "RUNNING"
           /\ LoopStep
           /\ last'.ret # "NONE"
      /\ game'.state = "GAME_OVER" => pc' = "idle"
      /\ game'.state \in {"RUNNING", "PAUSED"} => game'.snake.alive
    ]_vars

\* A step has failed while the accumulator still held a whole step interval,
\* and no further step was taken.
C14_Witness ==
  /\ game.state = "GAME_OVER"
  /\ pc = "idle"
  /\ last.op = "step" /\ last.ret # "NONE"
  /\ game.step_timer >= game.step_dt

\* A round as the reset leaves it, the step accumulator apart.
FreshRound(G) ==
  /\ G.snake = [ body |-> <<StartCell>>, dir |-> <<1, 0>>, next_dir |-> <<1, 0>>,
                 grow |-> 2, alive |-> TRUE ]
  /\ Len(G.foods) = 3
  /\ G.powerups = << >>
  /\ G.score = 0
  /\ G.score_mult = 1
  /\ G.effects = EmptyMap
  /\ G.normal_eaten = 0
  /\ G.speed = DIFFICULTIES[G.difficulty].speed
  /\ G.pup_timer = 0
  /\ G.elapsed = 0

\* C15, as stated: every entry into RUNNING from MENU or GAME_OVER yields a
\* fully reinitialised round, with all timers at zero, the step accumulator
\* included.
C15_AsStated ==
  [][ (game.state \in {"MENU", "GAME_OVER"} /\ game'.state = "RUNNING") =>
        /\ FreshRound(game')
        /\ game'.step_timer = 0 ]_vars

\* C15 without the step accumulator: what the reset does re-establish.
C15_ResetButAccumulator ==
  [][ (game.state \in {"MENU", "GAME_OVER"} /\ game'.state = "RUNNING") =>
        FreshRound(game') ]_vars

\* The kind of the food eaten by the transition, "NONE" when it eats none.
AteNow == IF pc = "loop" THEN last'.ate ELSE "NONE"

\* The transition is a round reset: the world is rebuilt from MENU or GAME_OVER.
RoundReset ==
  /\ game.state \in {"MENU", "GAME_OVER"}
  /\ game'.snake = NewSnake(StartCell)
  /\ game'.score = 0
  /\ game'.normal_eaten = 0

\* C16: NORMAL food adds 10 times the multiplier in force, GOLD 30 times the
\* multiplier, POISON takes 20 with the result floored at 0; the score changes
\* in no other way within a round and is never negative; normal_eaten goes up
\* by one with each NORMAL food only and goes back to 0 only in a round reset.
C16_Scoring ==
  [][ /\ AteNow = "NORMAL" =>
           /\ game'.score = game.score + 10 * game.score_mult
           /\ game'.normal_eaten = game.normal_eaten + 1
      /\ AteNow = "GOLD" =>
           /\ game'.score = game.score + 30 * game.score_mult
           /\ game'.normal_eaten = game.normal_eaten
      /\ AteNow = "POISON" =>
           /\ game'.score = Max(0, game.score - 20)
           /\ game'.normal_eaten = game.normal_eaten
      /\ AteNow \notin FoodKinds =>
           \/ /\ game'.score = game.score
              /\ game'.normal_eaten = game.normal_eaten
           \/ RoundReset
      /\ game'.score >= 0
    ]_vars

\* A NORMAL food has been eaten under the doubled multiplier: the only food
\* of the round, worth 20.
C16_Witness ==
  /\ last.ate = "NORMAL"
  /\ game.score_mult = 2
  /\ game.normal_eaten = 1
  /\ game.score = 20

\* The three options of the ruleset.
Options(G) == << G.difficulty, G.wrap, G.maze >>

\* C17: difficulty, wrap and maze change only by a command given in MENU that
\* stays in MENU, so the ruleset key is the same from the start of a round to
\* its end; and the end of a round touches the highscore of that key only.
C17_RulesetKey ==
  [][ /\ Options(game') # Options(game) =>
           game.state = "MENU" /\ game'.state = "MENU"
      /\ game.state # "MENU" => RoundKey(game') = RoundKey(game)
      /\ game'.state # "MENU" => RoundKey(game') = RoundKey(game)
      /\ RoundEnds =>
           \A k \in DOMAIN game'.highscores :
             k # RoundKey(game) =>
               k \in DOMAIN game.highscores /\ game'.highscores[k] = game.highscores[k]
    ]_vars

\* A round played with an option changed in MENU has ended and its score is
\* stored under the key of these options.
C17_Witness ==
  /\ game.state = "GAME_OVER"
  /\ Options(game) # <<"NORMAL", FALSE, FALSE>>
  /\ game.score > 0
  /\ DOMAIN game.highscores = {RoundKey(game)}
  /\ game.highscores[RoundKey(game)] = game.score

-----------------------------------------------------------------------------
(* Further property of _free_cell (checked under SpecFree).                *)

\* Cell c comes no later than cell e in the order of the scan (rows from the
\* top, each row from the left).
ScanOrder(c, e) == c[2] < e[2] \/ (c[2] = e[2] /\ c[1] <= e[1])

\* C18: with at least one cell of the grid unoccupied, a call of _free_cell
\* returns a cell whatever the generator draws; when every attempt has drawn
\* an occupied cell, the cell returned is the first unoccupied cell of the
\* row-major scan.
C18_Fallback ==
  /\ (pc = "idle" /\ Cells \ game.occupied # {}) =>
       \A draws \in AllDraws :
         _free_cell(game.occupied, draws) \in Cells \ game.occupied
  /\ (last.op = "_free_cell" /\ last.arg = "scan") =>
       /\ last.ret \in Cells \ game.occupied
       /\ \A c \in Cells \ game.occupied : ScanOrder(last.ret, c)

\* The scan was reached with several cells unoccupied and returned the first
\* of them, which is not in the first row.
C18_Witness ==
  /\ last.op = "_free_cell"
  /\ last.arg = "scan"
  /\ Cardinality(Cells \ game.occupied) >= 2
  /\ last.ret[2] >= 1
  /\ \E c \in Cells \ game.occupied : c # last.ret /\ ScanOrder(last.ret, c)

-----------------------------------------------------------------------------
(* Further properties of the game (checked under Spec).                    *)

\* The cells of the foods and of the power-ups of the game.
FoodCells(G) == { G.foods[i].pos : i \in 1 .. Len(G.foods) }

PowerupCells(G) == { G.powerups[i].pos : i \in 1 .. Len(G.powerups) }

\* C19, as stated: in every state between steps the foods are on pairwise
\* distinct cells that hold no cell of the snake body, no obstacle and no
\* power-up.
C19_AsStated ==
  /\ \A i, j \in 1 .. Len(game.foods) :
       i # j => game.foods[i].pos # game.foods[j].pos
  /\ FoodCells(game) \cap CellSet(game.snake.body) = {}
  /\ FoodCells(game) \cap game.obstacles = {}
  /\ FoodCells(game) \cap PowerupCells(game) = {}

\* The transition is the part of update(dt) before the while loop, in RUNNING.
UpdateStarts == pc = "idle" /\ ticks' = ticks + 1 /\ game.state = "RUNNING"

\* C20: a RUNNING update adds dt to the accumulator before the loop; the loop
\* goes on exactly while the accumulator holds a whole step interval; each
\* iteration takes one interval off and moves the snake by one step, and no
\* step is taken elsewhere; an update that leaves the round RUNNING ends with
\* 0 <= accumulator < step interval.
C20_Accumulator ==
  [][ /\ UpdateStarts =>
           /\ game'.step_timer = game.step_timer + (clock' - clock)
           /\ game'.snake = game.snake
           /\ pc' = "loop" <=> game'.step_timer >= game'.step_dt
      /\ pc = "loop" =>
           /\ game.step_timer >= game.step_dt
           /\ game'.step_timer = game.step_timer - game.step_dt
           /\ game'.step_dt = game.step_dt
           /\ last'.op = "step"
           /\ game'.snake.dir = game.snake.next_dir
           /\ last'.ret = "NONE" =>
                /\ game'.snake.body[1] = Wrapped(RawHead(game.snake))
                /\ pc' = "loop" <=> game'.step_timer >= game'.step_dt
      /\ (pc # "loop" /\ ~UpdateStarts) =>
           \/ game'.snake.body = game.snake.body
           \/ RoundReset
      /\ ((UpdateStarts \/ pc = "loop") /\ pc' = "idle" /\ game'.state = "RUNNING") =>
           /\ 0 <= game'.step_timer
           /\ game'.step_timer < game'.step_dt
    ]_vars

\* The first update of a round has taken several steps and has ended, in
\* RUNNING, with a remainder in the accumulator.
C20_Witness ==
  /\ game.state = "RUNNING"
  /\ pc = "idle"
  /\ ticks = 1
  /\ last.op = "step"
  /\ Len(game.snake.body) >= 3
  /\ game.step_timer > 0
  /\ game.step_timer < game.step_dt

\* C21: the part of a RUNNING update before the loop leaves exactly the
\* effects whose expiry is after the time of the update; a step of the loop is
\* given the ghost flag of the effects in force, none of them expired at that
\* time; the food and the power-up a step takes are those on the cell the head
\* has moved to; a power-up taken is in force when the step is over, hence for
\* the steps that follow in the same update; and a step that succeeds ends
\* with the occupancy set of the state it leaves.
C21_TickOrder ==
  [][ /\ UpdateStarts =>
           /\ DOMAIN game'.effects =
                { k \in DOMAIN game.effects : game.effects[k] > clock' }
           /\ \A k \in DOMAIN game'.effects : game'.effects[k] = game.effects[k]
           /\ game'.snake = game.snake
           /\ game'.foods = game.foods
      /\ pc = "loop" =>
           /\ last'.arg.ghost = ("GHOST" \in DOMAIN game.effects)
           /\ \A k \in DOMAIN game.effects : game.effects[k] > clock
           /\ last'.ate # "NONE" =>
                \E i \in 1 .. Len(game.foods) :
                  /\ game.foods[i].pos = Wrapped(RawHead(game.snake))
                  /\ game.foods[i].kind = last'.ate
           /\ last'.pu # "NONE" =>
                /\ \E i \in 1 .. Len(game.powerups) :
                     /\ game.powerups[i].pos = Wrapped(RawHead(game.snake))
                     /\ game.powerups[i].kind = last'.pu
                /\ last'.pu \in DOMAIN game'.effects
                /\ game'.effects[last'.pu] = clock + PUP_DUR[last'.pu]
                /\ game'.effects[last'.pu] > clock'
           /\ last'.ret = "NONE" => game'.occupied = Occupancy(game')
    ]_vars

\* In the only update so far a GHOST power-up was taken by one step and a
\* later step of the same update was given the ghost flag.
C21_Witness ==
  /\ ticks = 1
  /\ last.op = "step"
  /\ last.arg.ghost
  /\ last.pu = "NONE"

\* The score multiplier is 2 with MULTI among the effects and 1 without.
MultiplierOfEffects ==
  game.score_mult = IF "MULTI" \in DOMAIN game.effects THEN 2 ELSE 1

\* C22: in every state the score multiplier is 2 exactly when MULTI is among
\* the active effects and 1 otherwise; and when update has expired the
\* effects at its time, no effect with an expiry at or before that time is
\* left.
C22_Multiplier ==
  /\ []MultiplierOfEffects
  /\ [][ UpdateStarts =>
           /\ \A k \in DOMAIN game'.effects : game'.effects[k] > clock'
           /\ \A k \in DOMAIN game.effects :
                game.effects[k] > clock' => k \in DOMAIN game'.effects
       ]_vars

\* An effect has expired in a running round: a power-up was taken in this
\* round, no effect is left, and the multiplier is 1.
C22_Witness ==
  /\ game.state = "RUNNING"
  /\ eaten.POWERUP >= 1
  /\ game.effects = EmptyMap
  /\ game.score_mult = 1
  /\ last.op = "update"

-----------------------------------------------------------------------------
(* Property of the effect manager (checked under SpecEffects).             *)

\* C23: a call of _activate_powerup(kind, now) leaves the kind with the
\* expiry now + duration(kind), which is not before the expiry the kind had,
\* and leaves every other effect as it was; and no effect ever has an expiry
\* beyond clock + duration, so that a later activation, at a later or equal
\* clock, never sets an earlier expiry than any the kind had before.
C23_Refresh ==
  [][ /\ \A kind \in POWERUP_TYPES :
           EffectsActivate(kind) =>
             /\ DOMAIN game'.effects = DOMAIN game.effects \cup {kind}
             /\ game'.effects[kind] = clock + PUP_DUR[kind]
             /\ kind \in DOMAIN game.effects =>
                  game'.effects[kind] >= game.effects[kind]
             /\ \A k \in DOMAIN game.effects \ {kind} :
                  game'.effects[k] = game.effects[k]
      /\ clock' >= clock
      /\ \A k \in DOMAIN game'.effects :
           game'.effects[k] <= clock' + PUP_DUR[k]
    ]_vars

\* A kind that was active has been activated again, its expiry is later than
\* the one it had, and another kind is active with an earlier expiry.
C23_Witness ==
  /\ last.op = "_activate_powerup"
  /\ last.ret > clock
  /\ game.effects[last.arg.kind] > last.ret
  /\ \E k \in DOMAIN game.effects :
       k # last.arg.kind /\ game.effects[k] < game.effects[last.arg.kind]

-----------------------------------------------------------------------------
(* Last properties of the game (checked under Spec).                       *)

\* The time an effect of the game has left at the clock.
Remaining(G, k, now) == G.effects[k] - now

\* C24, as stated: time that passes while the session is PAUSED does not count
\* toward expiry: over every transition that begins and ends in PAUSED each
\* effect keeps the remaining duration it has.
C24_AsStated ==
  [][ (game.state = "PAUSED" /\ game'.state = "PAUSED") =>
        \A k \in DOMAIN game.effects :
          /\ k \in DOMAIN game'.effects
          /\ Remaining(game', k, clock') = Remaining(game, k, clock)
    ]_vars

-----------------------------------------------------------------------------
(* Further property of the Snake class (checked under SpecSnake).          *)

\* C25: every cell of the snake body is a cell of the grid, 0 <= x < GRID_W
\* and 0 <= y < GRID_H, in every state, whatever wrap and ghost the steps are
\* given, and also after a step that has failed.
C25_BodyInGrid ==
  \A i \in 1 .. Len(game.snake.body) :
    /\ 0 <= game.snake.body[i][1] /\ game.snake.body[i][1] < GRID_W
    /\ 0 <= game.snake.body[i][2] /\ game.snake.body[i][2] < GRID_H

\* A step without wrap and ghost has failed at the wall, from a head on the
\* left or the upper border, and the body of several cells is as it was.
C25_Witness ==
  /\ last.op = "step"
  /\ last.ret = "WALL"
  /\ ~last.arg.wrap /\ ~last.arg.ghost
  /\ Len(game.snake.body) >= 3
  /\ \/ game.snake.body[1][1] = 0 /\ game.snake.dir = <<-1, 0>>
     \/ game.snake.body[1][2] = 0 /\ game.snake.dir = <<0, -1>>

-----------------------------------------------------------------------------
(* Property of _gen_obstacles (checked under FairObstacles).               *)

-----------------------------------------------------------------------------
(* Property of the game (checked under FairSpec).                          *)

\* The speed the update of the state aims at (lines 460-462).
TargetSpeed(G) ==
  LET ramped == Min(Max(G.base_speed + G.normal_eaten * RAMP_PER_NORMAL, G.base_speed),
                    MAX_SPEED)
  IN  IF "SLOW" \in DOMAIN G.effects THEN (ramped * 7) \div 10 ELSE ramped

\* C27: in every state the speed is above zero, between 0.7 times the starting
\* speed and the maximum, and the step interval is above zero; an update moves
\* the speed toward its target and not beyond; every iteration of the loop
\* of an update takes a whole interval off an accumulator that stays at or
\* above zero; and the loop of every update comes to an end (the program is
\* outside the loop again and again).
C27_SpeedPositive ==
  /\ [](/\ game.speed > 0
        /\ 10 * game.speed >= 7 * SelectedSpeed
        /\ game.speed <= MAX_SPEED
        /\ game.step_dt > 0
        /\ game.step_dt = 1000000 \div game.speed)
  /\ [][ /\ UpdateStarts =>
              /\ Min(game.speed, TargetSpeed(game')) <= game'.speed
              /\ game'.speed <= Max(game.speed, TargetSpeed(game'))
         /\ pc = "loop" =>
              /\ game'.step_timer < game.step_timer
              /\ game'.step_timer >= 0
              /\ game'.speed = game.speed
       ]_vars
  /\ []<>(pc = "idle")

\* An update with SLOW active has moved the speed part of the way down to its
\* target, and its loop has ended after several steps with the round going on.
C27_Witness ==
  /\ game.state = "RUNNING"
  /\ pc = "idle"
  /\ last.op = "step"
  /\ "SLOW" \in DOMAIN game.effects
  /\ game.speed < SelectedSpeed
  /\ game.speed > TargetSpeed(game)
  /\ ticks = MaxTicks

-----------------------------------------------------------------------------
(* Last property of the game (checked under Spec).                         *)

\* C28: in every state there are exactly 3 foods; a step that eats removes
\* the food it eats and appends one new food, leaving the other two as they
\* were; and a transition that eats nothing leaves the foods as they are,
\* unless it is a round reset, which makes 3 new ones.
C28_ThreeFoods ==
  /\ [](Len(game.foods) = 3)
  /\ [][ /\ AteNow # "NONE" =>
              \E i \in 1 .. Len(game.foods) :
                /\ game.foods[i].pos = game'.snake.body[1]
                /\ game.foods[i].kind = AteNow
                /\ \A j \in 1 .. i - 1 : game.foods[j].pos # game'.snake.body[1]
                /\ SubSeq(game'.foods, 1, Len(game.foods) - 1) = RemoveAt(game.foods, i)
                /\ Len(game'.foods) = Len(game.foods)
         /\ AteNow = "NONE" =>
              \/ game'.foods = game.foods
              \/ RoundReset
       ]_vars

\* Several foods were eaten and replaced in a round that is now paused.
C28_Witness ==
  /\ game.state = "PAUSED"
  /\ eaten.NORMAL + eaten.GOLD + eaten.POISON >= 2
  /\ game.score > 0
  /\ Len(game.foods) = 3

====
